---------------------------- MODULE Spec2Model ----------------------------
(***************************************************************************)
(* vardautomation.comp: make_comps and its constrained sample selector     *)
(* _select_samples_with_picture_types, as a state machine.                 *)
(*                                                                         *)
(* One behaviour is one call of make_comps.  The call's arguments and the  *)
(* state of the output directory are chosen in Init; the control position  *)
(* is pc.  A hard failure (Status.fail, or an exception of the standard    *)
(* library that make_comps does not catch) ends the call in pc = "failed"  *)
(* with the kind of failure in `failure`.                                  *)
(***************************************************************************)
EXTENDS Integers, Sequences, FiniteSets, TLC

VARIABLES
    \* ---- the arguments of make_comps (never changed by the call)
    clips,            \* Dict[str, VideoNode], in insertion order
    num,              \* number of frames to sample
    frames,           \* the `frames` argument: additional frame numbers
    picture_types,    \* the `picture_types` argument (a set of tags)
    writer,           \* Writer.FFMPEG | Writer.IMWRI | Writer.OPENCV
    magick_compare,   \* make diffs
    slowpics,         \* upload
    \* ---- the environment
    dirs,             \* directories that exist on disk
    files,            \* files on disk: <<directory, file name>> -> content
    dirs_at_call,     \* the directories that existed when the call began
    \* ---- locals of make_comps
    pc,               \* control position
    failure,          \* "none", or the failure that ended the call
    samples,          \* the set `samples`
    sorted_frames,    \* `frames` after line 130: sorted(samples)
    max_num,          \* max(samples)
    clip_i,           \* how many clips the extraction loop has done
    fields,           \* the multipart payload: field name -> value
    \* ---- locals of _select_samples_with_picture_types
    attempts,         \* _attempts
    max_attempts,     \* _max_attempts
    rnum_checked,     \* _rnum_checked
    rnum              \* rnum (None before the first draw)

inputs == <<clips, num, frames, picture_types, writer, magick_compare, slowpics,
            dirs_at_call>>
disk == <<dirs, files>>
selector == <<attempts, max_attempts, rnum_checked, rnum>>
vars == <<inputs, disk, pc, failure, samples, sorted_frames, max_num, clip_i,
          fields, selector>>

---------------------------------------------------------------------------
\* Bounds of the model.

\* Sample counts 0..MaxNum are tried.
MaxNum == 3
\* Clips of up to FullDrawLen frames are generated for every length, and
\* their draws are explored in every order.
FullDrawLen == 4
\* The clips of the calls that vary writer, diff, upload and output path have
\* PipelineLen frames.
PipelineLen == 2

---------------------------------------------------------------------------
\* Program constants.

MAX_ATTEMPTS_PER_PICTURE_TYPE == 50

None == -1

---------------------------------------------------------------------------
\* Generic helpers.

Range(s) == {s[i] : i \in DOMAIN s}

Min(S) == CHOOSE x \in S : \A y \in S : x <= y

Max(S) == CHOOSE x \in S : \A y \in S : x >= y

\* sorted(S) for a set of integers: the ascending list.
RECURSIVE SortedInts(_)
SortedInts(S) ==
    IF S = {} THEN <<>> ELSE <<Min(S)>> \o SortedInts(S \ {Min(S)})

---------------------------------------------------------------------------
\* Clips.  A clip is [name, num_frames, props]: props maps the frames whose
\* _PictType is not "P" to their tag.

Clip(name, n, props) == [name |-> name, num_frames |-> n, props |-> props]

\* get_prop(f, '_PictType', bytes).decode('utf-8') of frame n of clip c.
PictType(c, n) == IF n \in DOMAIN c.props THEN c.props[n] ELSE "P"

\* str.upper on the tags the model uses.
Upper(t) ==
    CASE t = "i" -> "I"
      [] t = "p" -> "P"
      [] t = "b" -> "B"
      [] OTHER -> t

\* str.lower on the tags the model uses.
Lower(t) ==
    CASE t = "I" -> "i"
      [] t = "P" -> "p"
      [] t = "B" -> "b"
      [] OTHER -> t

\* lens = set(c.num_frames for c in clips.values())
lens == {clips[i].num_frames : i \in DOMAIN clips}

\* lens.pop() once the lengths are known to be equal.
NumFrames == CHOOSE n \in lens : TRUE

---------------------------------------------------------------------------
\* _select_samples_with_picture_types

\* p_type = [p.upper() for p in picture_types]
p_type_raw == picture_types
p_type == {Upper(p) : p \in picture_types}

\* The test of lines 292-295 for candidate r: every clip's frame r has its
\* tag in p_type.
PictTypeAny(r) == \E i \in DOMAIN clips : PictType(clips[i], r) \in p_type
PictTypeOk(r) == \A i \in DOMAIN clips : PictType(clips[i], r) \in p_type

\* while len(samples) < k
LoopContinuesOffByOne(s, k) == Cardinality(s) <= k
LoopContinues(s, k) == Cardinality(s) < k

\* if len(_rnum_checked) < num_frames
CanDrawOffByOne(checked, n) == Cardinality(checked) <= n
CanDraw(checked, n) == Cardinality(checked) < n

\* _rnum_checked.add(rnum)
CheckedAddForgotten(checked, r) == checked
CheckedAdd(checked, r) == checked \cup {r}

\* _rand_num_frames(checked, rand_func): rand_func is drawn again until it
\* gives an index outside `checked`, so the result is any index of
\* [0, num_frames) not in `checked` (and the loop never ends when there is
\* none: the empty set).
\* Frames that fail the test are interchangeable for the selector, which
\* only stores their index in _rnum_checked.  For clips longer than
\* FullDrawLen the failing frames are therefore drawn in ascending order;
\* every order of the passing frames and every interleaving of passing and
\* failing draws is kept.
RandNumFrames(checked, n) ==
    LET unchecked == (0 .. n - 1) \ checked
        failing == {r \in unchecked : ~PictTypeOk(r)}
    IN IF n <= FullDrawLen
       THEN unchecked
       ELSE {r \in unchecked : PictTypeOk(r) \/ r = Min(failing)}

\* if _attempts > _MAX_ATTEMPTS_PER_PICTURE_TYPE  (line 300)
GiveUp(a) == a > MAX_ATTEMPTS_PER_PICTURE_TYPE

\* if _max_attempts > _MAX_ATTEMPTS_PER_PICTURE_TYPE * k  (line 307)
BudgetNeverExceeded(m, k) == FALSE
BudgetExceededPerSlot(m, k) == m > MAX_ATTEMPTS_PER_PICTURE_TYPE
BudgetExceeded(m, k) == m > MAX_ATTEMPTS_PER_PICTURE_TYPE * k

\* if _attempts < _MAX_ATTEMPTS_PER_PICTURE_TYPE  (line 310)
SlotKeepsAlways(a) == TRUE
SlotKeeps(a) == a < MAX_ATTEMPTS_PER_PICTURE_TYPE

\* Status.fail(msg, exception=E): raises E.
StatusFail(exc) ==
    /\ pc' = "failed"
    /\ failure' = exc


---------------------------------------------------------------------------
\* File names and the disk.  A file name is <<stem, digits, ext>>, standing
\* for f'{stem}_{digits}.{ext}'; a file is <<directory, file name>>.

\* The default `path` argument.
Root == <<"comps">>

\* "%i" % n and f'{n}': the decimal digits of n >= 0.
RECURSIVE Digits(_)
Digits(n) == IF n < 10 THEN <<n>> ELSE Digits(n \div 10) \o <<n % 10>>

\* str.zfill(w)
RECURSIVE ZFill(_, _)
ZFillNone(s, w) == s
ZFill(s, w) == IF Len(s) >= w THEN s ELSE ZFill(<<0>> \o s, w)

\* len("%i" % max_num)
PadWidth == Len(Digits(max_num))

\* f'{name}_' + f'{f}'.zfill(len("%i" % max_num)) + '.png'  (lines 160, 189)
ImageName(name, f) == <<name, ZFill(Digits(f), PadWidth), "png">>

\* int(s) of a digit string.
RECURSIVE Value(_)
Value(s) == IF s = <<>> THEN 0 ELSE 10 * Value(SubSeq(s, 1, Len(s) - 1)) + s[Len(s)]

\* ' ' as a character of a file name (digits are 0..9).
Space == 0 - 16

\* str.rjust(w)
RECURSIVE RJust(_, _)
RJust(s, w) == IF Len(s) >= w THEN s ELSE RJust(<<Space>> \o s, w)

\* The name imwri.Write gives frame f under the pattern of line 179,
\* f'{name}_%' + f'{len("%i" % max_num)}'.zfill(2) + 'd.png': the frame
\* number under the C conversion %<spec>d, where a leading 0 of spec is the
\* zero-padding flag and the rest is the width.
ImwriName(name, f) ==
    LET spec == ZFill(Digits(PadWidth), 2)
    IN IF spec[1] = 0
       THEN <<name, ZFill(Digits(f), Value(Tail(spec))), "png">>
       ELSE <<name, RJust(Digits(f), Value(spec)), "png">>

\* The order of str on digit strings followed by '.': at the first
\* difference the smaller digit wins, and a proper prefix comes first
\* ('.' sorts before every digit).
RECURSIVE DigitsLess(_, _)
DigitsLess(s, t) ==
    IF s = <<>> THEN t # <<>>
    ELSE IF t = <<>> THEN FALSE
    ELSE IF s[1] # t[1] THEN s[1] < t[1]
    ELSE DigitsLess(Tail(s), Tail(t))

\* dir.glob('*.png'): the png files of a directory.
Glob(dir) == {f \in DOMAIN files : f[1] = dir /\ f[2][3] = "png"}

\* sorted(...) of files of one directory and one stem.
RECURSIVE SortedFiles(_)
SortedFiles(F) ==
    IF F = {} THEN <<>>
    ELSE LET m == CHOOSE f \in F : \A g \in F \ {f} : DigitsLess(f[2][2], g[2][2])
         IN <<m>> \o SortedFiles(F \ {m})

\* path.mkdir(parents=True) raises FileExistsError when the path is there.
ExistOk(p) == FALSE
Exists(p) == p \in dirs

\* The image of frame f of the clip called name, as written to disk.
Image(name, f) == <<name, f>>

\* magick compare of two images.
Compare(a, b) == <<"diff", a, b>>

\* path / 'diffs'
path_diff == Root \o <<"diffs">>

\* zip(a, b, ...): the common positions.
ZipLen2(a, b) == IF Len(a) <= Len(b) THEN Len(a) ELSE Len(b)

ZipLen3(a, b, c) == ZipLen2(a, IF Len(b) <= Len(c) THEN b ELSE c)

---------------------------------------------------------------------------
\* The calls explored.

\* Tag patterns of the generated clips.
PatA == [i \in 0 .. FullDrawLen + PipelineLen |-> IF i % 3 = 1 THEN "P" ELSE "I"]

PatB == [i \in 0 .. FullDrawLen + PipelineLen |-> IF i % 3 = 2 THEN "B" ELSE "I"]

PatC == [i \in 0 .. FullDrawLen + PipelineLen |-> IF i % 2 = 0 THEN "i" ELSE "I"]

PatP == [i \in 0 .. FullDrawLen + PipelineLen |-> "P"]

\* The props of a clip of n frames tagged after pat.
PropsFrom(n, pat) == [i \in {j \in 0 .. n - 1 : pat[j] # "P"} |-> pat[i]]

\* [i |-> "I"] for the frames of S.
IFrames(S) == [i \in S |-> "I"]

\* The clip sets generated for clips of n frames: one clip, two clips, two
\* clips of unequal length, three clips.
ClipSetsOfLen(n) ==
    { <<Clip("A", n, PropsFrom(n, PatA))>>,
      <<Clip("A", n, PropsFrom(n, PatC))>>,
      <<Clip("A", n, PropsFrom(n, PatP))>>,
      <<Clip("A", n, PropsFrom(n, PatA)), Clip("B", n, PropsFrom(n, PatB))>>,
      <<Clip("A", n, PropsFrom(n, PatA)), Clip("B", n + 1, PropsFrom(n + 1, PatB))>>,
      <<Clip("A", n, PropsFrom(n, PatA)), Clip("B", n, PropsFrom(n, PatB)),
        Clip("C", n, PropsFrom(n, PatC))>> }

SmallClipSets == UNION {ClipSetsOfLen(n) : n \in 1 .. FullDrawLen}

\* Two clips whose frame numbers have one or two digits.
MidClipSets ==
    { <<Clip("A", 11, IFrames({2, 10})), Clip("B", 11, IFrames({2, 3, 10}))>> }

LargeClipSets ==
    { <<Clip("A", 50, IFrames({4, 17, 20, 39})), Clip("B", 50, IFrames({4, 17, 30, 39}))>>,
      <<Clip("A", 53, IFrames({7, 12}))>>,
      <<Clip("A", 60, IFrames({}))>>,
      <<Clip("A", 104, IFrames({5}))>> }

Writers == {"FFMPEG", "IMWRI", "OPENCV"}

PictureTypeChoices == {{}, {"I"}, {"i"}, {"i", "B"}}

ExtraChoices(n) == {{}, {0}, {x \in {n - 2, n - 1} : x >= 0}}

InitLocals ==
    /\ dirs = dirs_at_call
    /\ files = <<>>
    /\ pc = "start"
    /\ failure = "none"
    /\ samples = {}
    /\ sorted_frames = <<>>
    /\ max_num = None
    /\ clip_i = 0
    /\ fields = <<>>
    /\ attempts = 0
    /\ max_attempts = 0
    /\ rnum_checked = {}
    /\ rnum = None

\* Short clips, every filter and count, the default writer and no diff, no
\* upload, a fresh output path.
InitSmall ==
    /\ clips \in SmallClipSets
    /\ num \in 0 .. MaxNum
    /\ frames \in ExtraChoices(clips[1].num_frames)
    /\ picture_types \in PictureTypeChoices
    /\ writer = "OPENCV"
    /\ magick_compare = FALSE
    /\ slowpics = FALSE
    /\ dirs_at_call = {}

\* Clips of PipelineLen frames, every writer, with and without diff and
\* upload, the output path fresh or already there.
InitPipeline ==
    /\ clips \in ClipSetsOfLen(PipelineLen)
    /\ num \in 0 .. MaxNum
    /\ frames \in ExtraChoices(PipelineLen)
    /\ picture_types \in {{}, {"I"}}
    /\ writer \in Writers
    /\ magick_compare \in BOOLEAN
    /\ slowpics \in BOOLEAN
    /\ dirs_at_call \in {{}, {Root}}

\* Clips of 11 frames, with and without a filter, every writer, with and
\* without diff and upload.
InitMid ==
    /\ clips \in MidClipSets
    /\ num \in 1 .. MaxNum
    /\ frames \in {{}, {10}}
    /\ picture_types \in {{}, {"i"}}
    /\ writer \in Writers
    /\ magick_compare \in BOOLEAN
    /\ slowpics = magick_compare
    /\ dirs_at_call = {}

\* Long clips with a filter.
InitLarge ==
    /\ clips \in LargeClipSets
    /\ num \in 1 .. MaxNum
    /\ frames \in {{}, {10}}
    /\ picture_types = {"i"}
    /\ writer = "OPENCV"
    /\ magick_compare = (frames # {})
    /\ slowpics = magick_compare
    /\ dirs_at_call = {}

Init == (InitSmall \/ InitPipeline \/ InitMid \/ InitLarge) /\ InitLocals

---------------------------------------------------------------------------
\* make_comps, lines 114-130: the length check and the sampling.

\* Lines 115-117.
CheckLengths ==
    /\ pc = "start"
    /\ IF Cardinality(lens) # 1
       THEN StatusFail("clips_length")
       ELSE pc' = "samples" /\ UNCHANGED failure
    /\ UNCHANGED <<inputs, disk, samples, sorted_frames, max_num, clip_i, fields,
                   selector>>

\* Lines 120-124.  With picture types the selector is entered (lines 274-278
\* set its locals); without, random.sample draws `num` distinct indices, and
\* raises ValueError when num exceeds the population.
MakeSamples ==
    /\ pc = "samples"
    /\ IF picture_types # {}
       THEN /\ pc' = "while"
            /\ samples' = {}
            /\ max_attempts' = 0
            /\ rnum_checked' = {}
            /\ UNCHANGED <<failure, attempts, rnum>>
       ELSE IF num > NumFrames
            THEN StatusFail("sample_larger") /\ UNCHANGED <<samples, selector>>
            ELSE /\ \E S \in SUBSET (0 .. NumFrames - 1) :
                       /\ Cardinality(S) = num
                       /\ samples' = S
                 /\ pc' = "extra"
                 /\ UNCHANGED <<failure, selector>>
    /\ UNCHANGED <<inputs, disk, sorted_frames, max_num, clip_i, fields>>

\* Lines 279-280 and 313: the test of the outer loop.  On `return samples`
\* the selector's locals go out of scope.
While ==
    /\ pc = "while"
    /\ IF LoopContinues(samples, num)
       THEN /\ pc' = "inner"
            /\ attempts' = 0
            /\ UNCHANGED <<max_attempts, rnum_checked, rnum>>
       ELSE /\ pc' = "extra"
            /\ attempts' = 0
            /\ max_attempts' = 0
            /\ rnum_checked' = {}
            /\ rnum' = None
    /\ UNCHANGED <<inputs, disk, failure, samples, sorted_frames, max_num, clip_i,
                   fields>>

\* Lines 282-305: one round of the inner loop.
Draw ==
    /\ pc = "inner"
    /\ IF CanDraw(rnum_checked, NumFrames)
       THEN \E r \in RandNumFrames(rnum_checked, NumFrames) :
               /\ rnum' = r
               /\ rnum_checked' = CheckedAdd(rnum_checked, r)
               /\ IF PictTypeOk(r)
                  THEN pc' = "slot_end" /\ UNCHANGED <<attempts, max_attempts>>
                  ELSE /\ attempts' = attempts + 1
                       /\ max_attempts' = max_attempts + 1
                       /\ pc' = IF GiveUp(attempts + 1) THEN "slot_end" ELSE "inner"
               /\ UNCHANGED failure
       ELSE StatusFail("not_enough") /\ UNCHANGED selector
    /\ UNCHANGED <<inputs, disk, samples, sorted_frames, max_num, clip_i, fields>>

\* Lines 307-311: the end of a slot.
SlotEnd ==
    /\ pc = "slot_end"
    /\ IF BudgetExceeded(max_attempts, num)
       THEN StatusFail("attempts_max") /\ UNCHANGED samples
       ELSE /\ samples' = IF SlotKeeps(attempts) THEN samples \cup {rnum} ELSE samples
            /\ pc' = "while"
            /\ UNCHANGED failure
    /\ UNCHANGED <<inputs, disk, sorted_frames, max_num, clip_i, fields, selector>>

\* Lines 126-130: the additional frames, max and sorted.  max() of an empty
\* set raises ValueError.
AddFrames ==
    /\ pc = "extra"
    /\ LET all == IF frames # {} THEN samples \cup frames ELSE samples
       IN IF all = {}
          THEN StatusFail("max_empty") /\ UNCHANGED <<samples, max_num, sorted_frames>>
          ELSE /\ samples' = all
               /\ max_num' = Max(all)
               /\ sorted_frames' = SortedInts(all)
               /\ pc' = "mkdir"
               /\ UNCHANGED failure
    /\ UNCHANGED <<inputs, disk, clip_i, fields, selector>>

\* Lines 132-136: the output directory.
MakeRoot ==
    /\ pc = "mkdir"
    /\ IF Exists(Root)
       THEN StatusFail("path_exists") /\ UNCHANGED dirs
       ELSE dirs' = dirs \cup {Root} /\ pc' = "clips" /\ UNCHANGED failure
    /\ UNCHANGED <<inputs, files, samples, sorted_frames, max_num, clip_i, fields,
                   selector>>

\* The files one clip's extraction writes (lines 152-201).  FFMPEG and
\* OPENCV write the i-th frame of select_frames(clip, frames) to
\* path_images[i]; IMWRI writes each requested frame under the name the
\* plugin forms from the frame's number.
Written(c, path_name) ==
    IF writer = "IMWRI"
    THEN [f \in {<<path_name, ImwriName(c.name, n)>> : n \in Range(sorted_frames)} |->
            Image(c.name, CHOOSE n \in Range(sorted_frames) :
                              f = <<path_name, ImwriName(c.name, n)>>)]
    ELSE LET path_images == [i \in DOMAIN sorted_frames |->
                                <<path_name, ImageName(c.name, sorted_frames[i])>>]
         IN [f \in Range(path_images) |->
                \* a later frame overwrites an earlier one of the same path
                Image(c.name, sorted_frames[Max({i \in DOMAIN path_images :
                                                    path_images[i] = f})])]

\* Lines 140-201: one round of the extraction loop.
ExtractClip ==
    /\ pc = "clips"
    /\ LET c == clips[clip_i + 1]
           path_name == Root \o <<c.name>>
       IN IF Exists(path_name)
          THEN StatusFail("clip_path_exists") /\ UNCHANGED <<disk, clip_i>>
          ELSE /\ dirs' = dirs \cup {path_name}
               /\ files' = Written(c, path_name) @@ files
               /\ clip_i' = clip_i + 1
               /\ pc' = IF clip_i + 1 = Len(clips) THEN "magick" ELSE "clips"
               /\ UNCHANGED failure
    /\ UNCHANGED <<inputs, samples, sorted_frames, max_num, fields, selector>>

\* all_images = [sorted((path / name).glob('*.png')) for name in clips.keys()]
all_images == [i \in DOMAIN clips |-> SortedFiles(Glob(Root \o <<clips[i].name>>))]

\* The diff images of lines 221-228.
Diffs ==
    LET images_a == all_images[1]
        images_b == all_images[2]
        n == ZipLen3(images_a, images_b, sorted_frames)
        out == [j \in 1 .. n |-> <<path_diff, ImageName("diff", sorted_frames[j])>>]
    IN [f \in Range(out) |->
           LET j == Max({k \in 1 .. n : out[k] = f})
           IN Compare(files[images_a[j]], files[images_b[j]])]

\* Lines 205-228.  `found` is whether the magick binary is installed.
\* images_a, images_b = all_images raises ValueError unless there are
\* exactly two clips.
MagickCompare ==
    /\ pc = "magick"
    /\ IF ~magick_compare
       THEN pc' = "slowpics" /\ UNCHANGED <<failure, disk>>
       ELSE IF Len(clips) > 2
            THEN StatusFail("magick_clips") /\ UNCHANGED disk
            ELSE \E found \in BOOLEAN :
                   IF ~found
                   THEN StatusFail("magick_missing") /\ UNCHANGED disk
                   ELSE IF Exists(path_diff)
                        THEN StatusFail("diff_exists") /\ UNCHANGED disk
                        ELSE /\ dirs' = dirs \cup {path_diff}
                             /\ IF Len(clips) # 2
                                THEN StatusFail("unpack") /\ UNCHANGED files
                                ELSE /\ files' = Diffs @@ files
                                     /\ pc' = "slowpics"
                                     /\ UNCHANGED failure
    /\ UNCHANGED <<inputs, samples, sorted_frames, max_num, clip_i, fields, selector>>

\* list(clips.keys()) + (['diff'] if magick_compare else [])
SourceNames ==
    [i \in DOMAIN clips |-> clips[i].name] \o (IF magick_compare THEN <<"diff">> ELSE <<>>)

\* all_images of lines 233-235.
UploadImages ==
    all_images \o (IF magick_compare THEN <<SortedFiles(Glob(path_diff))>> ELSE <<>>)

\* The fields of lines 237-251.  Positions are counted from 0 as in the
\* source.
Fields ==
    LET sources == SourceNames
        images == UploadImages
        I == 1 .. ZipLen2(sources, images)
        J(i) == 1 .. ZipLen2(images[i], sorted_frames)
        flags == {<<"collectionName">>, <<"public">>, <<"optimizeImages">>, <<"hentai">>}
        names == {<<"comparisons", j - 1, "name">> : j \in UNION {J(i) : i \in I}}
        inames == UNION {{<<"comparisons", j - 1, "images", i - 1, "name">> : j \in J(i)} : i \in I}
        ifiles == UNION {{<<"comparisons", j - 1, "images", i - 1, "file">> : j \in J(i)} : i \in I}
    IN [k \in flags \cup names \cup inames \cup ifiles |->
          IF k \in flags
          THEN (CASE k = <<"collectionName">> -> ""
                  [] k = <<"public">> -> "true"
                  [] k = <<"optimizeImages">> -> "true"
                  [] k = <<"hentai">> -> "false")
          ELSE IF k \in names THEN Digits(sorted_frames[k[2] + 1])
          ELSE IF k \in inames THEN sources[k[4] + 1]
          ELSE LET image == images[k[4] + 1][k[2] + 1]
               IN [name |-> image[2], bytes |-> files[image]]]

\* Lines 232-270.  `sent` is whether the two requests go through; a
\* transport error propagates.
Upload ==
    /\ pc = "slowpics"
    /\ IF ~slowpics
       THEN pc' = "done" /\ UNCHANGED <<failure, fields, files>>
       ELSE /\ fields' = Fields
            /\ \E sent \in BOOLEAN :
                 IF sent
                 THEN /\ files' = (<<Root, <<"slow.pics", <<>>, "url">>>> :> "url") @@ files
                      /\ pc' = "done"
                      /\ UNCHANGED failure
                 ELSE StatusFail("transport") /\ UNCHANGED files
    /\ UNCHANGED <<inputs, dirs, samples, sorted_frames, max_num, clip_i, selector>>

Next ==
    \/ CheckLengths
    \/ MakeSamples
    \/ While
    \/ Draw
    \/ SlotEnd
    \/ AddFrames
    \/ MakeRoot
    \/ ExtractClip
    \/ MagickCompare
    \/ Upload

Spec == Init /\ [][Next]_vars


---------------------------------------------------------------------------
\* Notions the properties are stated in.

InSelector == pc \in {"while", "inner", "slot_end"}

SelectorFailed == pc = "failed" /\ failure \in {"not_enough", "attempts_max"}

EqualLengths == Cardinality(lens) = 1

\* Tag t is in the filter, letter case ignored on both sides.
TagInFilter(t) == \E p \in picture_types : Lower(p) = Lower(t)

\* The indices whose frame is in the filter, letter case ignored, in every
\* clip.
InFilterEverywhere(r) == \A i \in DOMAIN clips : TagInFilter(PictType(clips[i], r))

\* Index r passes the filter: in every clip its tag is stored in upper case
\* and equals some filter tag with letter case ignored.
PassesFilter(r) ==
    \A i \in DOMAIN clips :
        LET t == PictType(clips[i], r) IN t = Upper(t) /\ TagInFilter(t)

\* The indices that pass the filter.
MatchingIndices == {r \in 0 .. NumFrames - 1 : PassesFilter(r)}

\* A step of the inner loop that drew and tested a candidate.
DrawStep == pc = "inner" /\ pc' # "failed"

\* The candidate of a DrawStep passed the test: the loop was left without
\* counting an attempt.
Accepted == attempts' = attempts

\* Sampling is over and make_comps has gone on to the output directory.
PastSampling ==
    \/ pc \in {"mkdir", "clips", "magick", "slowpics", "done"}
    \/ pc = "failed" /\ failure \in {"path_exists", "clip_path_exists", "magick_clips",
                                     "magick_missing", "diff_exists", "unpack", "transport"}

---------------------------------------------------------------------------
\* C1: with a filter, every index in the selector's result set has, in
\* every clip, a picture-type tag that is in the filter; this holds of the
\* set at every moment of the selection and when it is returned, so a
\* candidate that failed the test is never in it.
C1_FilterSoundness ==
    (picture_types # {} /\ (InSelector \/ pc = "extra" \/ SelectorFailed))
        => \A r \in samples : InFilterEverywhere(r)

\* A slot has given up on its 51st candidate, which is not in the result,
\* while an earlier slot's match is.
C1_Witness ==
    /\ pc = "while"
    /\ GiveUp(attempts)
    /\ samples # {}
    /\ rnum \notin samples
    /\ ~InFilterEverywhere(rnum)

\* C2: with three or more clips and magick_compare, at the moment the
\* "only two clips" failure is raised no clip subdirectory exists, no frame
\* has been written and no comparison has run.
C2_FailsBeforeAnyWork ==
    (pc = "failed" /\ failure = "magick_clips")
        => /\ \A i \in DOMAIN clips : (Root \o <<clips[i].name>>) \notin dirs
           /\ DOMAIN files = {}

\* What is left of the selection: the indices not yet checked, then the
\* position within the round (end of slot, loop test, inner loop).
SelectorRank ==
    4 * (NumFrames - Cardinality(rnum_checked))
      + (CASE pc = "slot_end" -> 3 [] pc = "while" -> 2 [] pc = "inner" -> 1 [] OTHER -> 0)

\* C3: the selection ends.  The checked set never exceeds the clip length
\* and every draw adds one index not checked before, so there are at most L
\* draws; whenever the inner loop asks _rand_num_frames for a candidate an
\* unchecked index is left, so that its loop ends; each step of the selector
\* either leaves it (by a return or a hard failure) or lowers SelectorRank,
\* which is never negative; and when no index passes the filter and
\* count >= 1, the selector is never left by a return.
C3_Terminates ==
    /\ [](EqualLengths => Cardinality(rnum_checked) <= NumFrames)
    /\ [][DrawStep => /\ rnum' \notin rnum_checked
                      /\ Cardinality(rnum_checked') = Cardinality(rnum_checked) + 1]_vars
    /\ []((pc = "inner" /\ CanDraw(rnum_checked, NumFrames))
            => RandNumFrames(rnum_checked, NumFrames) # {})
    /\ [][InSelector => \/ pc' = "extra"
                        \/ pc' = "failed" /\ failure' \in {"not_enough", "attempts_max"}
                        \/ InSelector' /\ SelectorRank' < SelectorRank]_vars
    /\ []((EqualLengths /\ picture_types # {} /\ num >= 1 /\ MatchingIndices = {})
            => pc \in {"start", "samples", "while", "inner", "slot_end", "failed"})

\* No frame passes the test; every index has been drawn and the selection
\* has failed.
C3_Witness ==
    /\ pc = "failed"
    /\ failure = "not_enough"
    /\ num >= 1
    /\ MatchingIndices = {}
    /\ Cardinality(rnum_checked) = NumFrames

\* Clips of at most 50 frames of which exactly `count` >= 1 indices pass
\* the filter.
C4_Pre ==
    /\ EqualLengths
    /\ picture_types # {}
    /\ num >= 1
    /\ NumFrames <= 50
    /\ Cardinality(MatchingIndices) = num

\* C4: for clips of at most 50 frames in which exactly `count` >= 1 indices
\* pass the filter in every clip, the selection never fails and returns
\* exactly those indices, in whatever order the candidates are drawn.
C4_CompleteOnSmallClips ==
    C4_Pre => /\ ~SelectorFailed
              /\ pc = "extra" => samples = MatchingIndices

\* The example of the claim: 50 frames, matches at 4, 17 and 39, count 3.
C4_Witness ==
    /\ C4_Pre
    /\ pc = "extra"
    /\ NumFrames = 50
    /\ num = 3
    /\ samples = {4, 17, 39}

\* Equal-length clips of L frames, count <= L, extra frames in [0, L).
C5_Pre ==
    /\ EqualLengths
    /\ num <= NumFrames
    /\ frames \subseteq 0 .. NumFrames - 1

\* C5: for equal-length clips of L frames, count <= L and extra frames in
\* [0, L): sampling, when it succeeds, hands on exactly `count` distinct
\* indices of [0, L), and the final list is that draw united with the extra
\* frames, in ascending order without duplicates, within [0, L), holding
\* every extra frame, of size >= count (= count without extra frames).
C5_FinalSetShape ==
    C5_Pre =>
      /\ pc = "extra" => /\ Cardinality(samples) = num
                         /\ samples \subseteq 0 .. NumFrames - 1
      /\ PastSampling =>
           LET R == Range(sorted_frames)
           IN /\ \A i, j \in DOMAIN sorted_frames : i < j => sorted_frames[i] < sorted_frames[j]
              /\ R \subseteq 0 .. NumFrames - 1
              /\ frames \subseteq R
              /\ Len(sorted_frames) >= num
              /\ frames = {} => Len(sorted_frames) = num
              /\ \E D \in SUBSET R : Cardinality(D) = num /\ D \cup frames = R
              /\ R = samples

\* A filtered run with extra frames that went through to the end with more
\* than `count` frames.
C5_Witness ==
    /\ pc = "done"
    /\ picture_types # {}
    /\ num >= 2
    /\ frames # {}
    /\ Len(sorted_frames) > num

\* C6: clips of unequal length make the call fail before any sample is
\* drawn, and an output root that already exists makes it fail before any
\* clip subdirectory is created or any frame written; in both cases the
\* disk is as it was when the call began.
C6_FailFast ==
    /\ ~EqualLengths =>
          /\ pc \in {"start", "failed"}
          /\ pc = "failed" => failure = "clips_length"
          /\ samples = {} /\ rnum_checked = {} /\ rnum = None
          /\ dirs = dirs_at_call /\ DOMAIN files = {}
    /\ Root \in dirs_at_call =>
          /\ pc \notin {"clips", "magick", "slowpics", "done"}
          /\ pc = "failed" => failure \notin {"clip_path_exists", "magick_clips",
                                              "magick_missing", "diff_exists", "unpack",
                                              "transport"}
          /\ dirs = dirs_at_call /\ DOMAIN files = {}

\* The call has failed on the output root being there, after sampling.
C6_Witness ==
    /\ pc = "failed"
    /\ failure = "path_exists"
    /\ samples # {}
    /\ dirs = dirs_at_call

\* A two-clip run with diff and upload that has built its payload.
C7_Pre ==
    /\ pc = "done" \/ (pc = "failed" /\ failure = "transport")
    /\ magick_compare
    /\ slowpics
    /\ Len(clips) = 2

\* What source i's image of frame f shows.
C7_Shows(i, f) ==
    IF i = 2 THEN Compare(Image(clips[1].name, f), Image(clips[2].name, f))
    ELSE Image(clips[i + 1].name, f)

\* C7: after a two-clip run with diff and upload over N frames, for every
\* position j and every source i of (first clip, second clip, diff) the
\* payload names position j after the j-th frame, names image (j, i) after
\* source i and carries as its file the image on disk, in source i's
\* directory, of the j-th frame of source i; there are exactly 3N file
\* fields and 3N source-name fields.
C7_PayloadCorrespondence ==
    C7_Pre =>
      LET N == Len(sorted_frames)
          source == <<clips[1].name, clips[2].name, "diff">>
          dir == <<Root \o <<clips[1].name>>, Root \o <<clips[2].name>>, path_diff>>
      IN /\ \A j \in 0 .. N - 1 :
              /\ <<"comparisons", j, "name">> \in DOMAIN fields
              /\ fields[<<"comparisons", j, "name">>] = Digits(sorted_frames[j + 1])
              /\ \A i \in 0 .. 2 :
                    /\ <<"comparisons", j, "images", i, "name">> \in DOMAIN fields
                    /\ fields[<<"comparisons", j, "images", i, "name">>] = source[i + 1]
                    /\ <<"comparisons", j, "images", i, "file">> \in DOMAIN fields
                    /\ LET v == fields[<<"comparisons", j, "images", i, "file">>]
                       IN /\ <<dir[i + 1], v.name>> \in DOMAIN files
                          /\ files[<<dir[i + 1], v.name>>] = v.bytes
                          /\ v.bytes = C7_Shows(i, sorted_frames[j + 1])
         /\ Cardinality({k \in DOMAIN fields : Len(k) = 5 /\ k[5] = "file"}) = 3 * N
         /\ Cardinality({k \in DOMAIN fields : Len(k) = 5 /\ k[5] = "name"}) = 3 * N
         /\ Cardinality(DOMAIN fields) = 4 + N + 6 * N

\* An uploaded run whose frame numbers differ in their number of digits.
C7_Witness ==
    /\ C7_Pre
    /\ pc = "done"
    /\ Len(sorted_frames) >= 3
    /\ sorted_frames[1] < 10
    /\ max_num >= 10

\* C8 as stated: a candidate passes the test exactly when, in every clip,
\* its tag equals some filter tag with letter case ignored on both sides.
C8_CaseInsensitiveBothSides ==
    [][DrawStep => (Accepted <=> InFilterEverywhere(rnum'))]_vars

\* C8 as amended: letter case is ignored on the filter's side only: a
\* candidate passes the test exactly when, in every clip, its tag is stored
\* in upper case and equals some filter tag with letter case ignored.
C8_CaseInsensitiveFilter ==
    [][DrawStep => (Accepted <=> PassesFilter(rnum'))]_vars

\* A frame tagged "I" has passed the test of the filter {"i"}.
C8_Witness ==
    /\ pc = "slot_end"
    /\ ~GiveUp(attempts)
    /\ picture_types = {"i"}
    /\ \A i \in DOMAIN clips : PictType(clips[i], rnum) = "I"

\* C9: within one slot at most 50 candidates are drawn and tested: the
\* count of candidates that failed in the slot never passes 50.
C9_SlotTestsAtMost50 ==
    InSelector => attempts <= MAX_ATTEMPTS_PER_PICTURE_TYPE

\* C10: the counter of failed attempts runs over all slots and is never
\* reset; a slot that ends with the counter above 50 x count aborts the
\* selection; so the loop test, where alone the selector returns, is never
\* reached with the counter above 50 x count.
C10_GlobalBudget ==
    /\ [](pc = "while" => max_attempts <= MAX_ATTEMPTS_PER_PICTURE_TYPE * num)
    /\ [][(InSelector /\ InSelector') => max_attempts' >= max_attempts]_vars
    /\ [][(pc = "slot_end" /\ max_attempts > MAX_ATTEMPTS_PER_PICTURE_TYPE * num)
             => (pc' = "failed" /\ failure' = "attempts_max")]_vars

\* The second slot has run the counter past 50 x 2 and the selection has
\* aborted.
C10_Witness ==
    /\ pc = "failed"
    /\ failure = "attempts_max"
    /\ num = 2
    /\ max_attempts > MAX_ATTEMPTS_PER_PICTURE_TYPE * num

\* C11: during one constrained selection the checked set holds indices of
\* [0, L) only and, from one step of the selector to the next, only grows,
\* from slot to slot as well, so that what an abandoned slot checked stays
\* excluded; each candidate is drawn from the indices of [0, L) not yet
\* checked and is the one index its draw adds; no other step of the
\* selection changes the checked set, so the number of draws made so far is
\* the size of the checked set, and no index is tested twice.
C11_NeverRecheck ==
    /\ [](InSelector => rnum_checked \subseteq 0 .. NumFrames - 1)
    /\ [][(InSelector /\ InSelector') => rnum_checked \subseteq rnum_checked']_vars
    /\ [][DrawStep => /\ rnum' \in (0 .. NumFrames - 1) \ rnum_checked
                      /\ rnum_checked' = rnum_checked \cup {rnum'}]_vars
    /\ [][(InSelector /\ InSelector' /\ ~DrawStep) => rnum_checked' = rnum_checked]_vars

\* The first slot was abandoned after 51 candidates, none of which passed,
\* and the first candidate of the next slot, a 52nd index, has passed.
C11_Witness ==
    /\ pc = "slot_end"
    /\ attempts = 0
    /\ max_attempts = MAX_ATTEMPTS_PER_PICTURE_TYPE + 1
    /\ samples = {}
    /\ Cardinality(rnum_checked) = MAX_ATTEMPTS_PER_PICTURE_TYPE + 2
    /\ rnum \in rnum_checked
    /\ PassesFilter(rnum)

\* C12: a slot that gives up leaves the result set as it was, and its last
\* candidate is not in it; unless the counter over all slots has passed
\* 50 x count, the end of that slot is not a failure but leads back to the
\* loop test, which, the result being still short of count, begins a
\* further slot.
C12_AbandonedSlotOmitted ==
    /\ [][(pc = "slot_end" /\ GiveUp(attempts))
             => /\ samples' = samples
                /\ max_attempts <= MAX_ATTEMPTS_PER_PICTURE_TYPE * num
                      => (pc' = "while" /\ failure' = "none")]_vars
    /\ []((pc = "while" /\ GiveUp(attempts))
             => (rnum \notin samples /\ failure = "none" /\ Cardinality(samples) < num))
    /\ [][(pc = "while" /\ GiveUp(attempts))
             => (pc' = "inner" /\ attempts' = 0 /\ samples' = samples)]_vars

\* The first slot was abandoned after 51 candidates with nothing selected,
\* and the second slot has begun.
C12_Witness ==
    /\ pc = "inner"
    /\ attempts = 0
    /\ max_attempts = MAX_ATTEMPTS_PER_PICTURE_TYPE + 1
    /\ Cardinality(rnum_checked) = MAX_ATTEMPTS_PER_PICTURE_TYPE + 1
    /\ samples = {}
    /\ failure = "none"

\* C13: at every slot boundary, and when the selector reports that there
\* are not enough frames of the picture types, each checked index that
\* passes the filter in every clip is in the result set.
C13_NoMatchLost ==
    (pc = "while" \/ (pc = "failed" /\ failure = "not_enough"))
        => \A r \in rnum_checked : PassesFilter(r) => r \in samples

=============================================================================
